---- MODULE Spec2Model ----
(***************************************************************************)
(* A model of superconductivity/complex_conductivity.py: the closed-form   *)
(* evaluator limit() and the integrating evaluator numeric().              *)
(*                                                                         *)
(* Floating-point numbers are modelled by an abstract domain that keeps    *)
(* what the control flow and the shapes of the results depend on: exact    *)
(* small integers (the inputs, and products of them with 1.0), the         *)
(* non-finite markers Inf and NaN produced by IEEE division by zero, and   *)
(* symbolic terms for every other finite quantity.  numpy arrays are       *)
(* objects on a heap, so that aliasing of the caller's arrays by           *)
(* numpy.atleast_1d is visible.                                            *)
(***************************************************************************)
EXTENDS Integers, Sequences, FiniteSets, TLC

\* ------------------------------------------------------------------ bounds
MaxTempLen == 2  \* longest temp array the caller passes
MaxFreqLen == 3  \* longest freq array the caller passes

\* ------------------------------------------------------------- float values
\* Every scalar has the same record shape, so any two can be compared.
IntV(n) == [k |-> "int", v |-> n, op |-> "", args |-> <<>>]
Sym(o, as) == [k |-> "sym", v |-> 0, op |-> o, args |-> as]
Inf == [k |-> "inf", v |-> 0, op |-> "", args |-> <<>>]
NaN == [k |-> "nan", v |-> 0, op |-> "", args |-> <<>>]

IsZero(x) == x.k = "int" /\ x.v = 0
IsNaN(x) == x.k = "nan"
IsInf(x) == x.k = "inf"
IsFinite(x) == x.k \in {"int", "sym"}

\* scipy.constants and numpy.pi: finite, positive, symbolic
PI == Sym("pi", <<>>)
H == Sym("h", <<>>)
KB == Sym("k", <<>>)
\* the default of numeric's parameter bcs
BCS == Sym("1.764", <<>>)

IsOne(x) == x.k = "int" /\ x.v = 1

\* IEEE-754 multiplication (0 * inf is NaN, x * 1 is x)
FMul(a, b) ==
    IF IsNaN(a) \/ IsNaN(b) THEN NaN
    ELSE IF IsInf(a) \/ IsInf(b)
         THEN (IF IsZero(a) \/ IsZero(b) THEN NaN ELSE Inf)
    ELSE IF IsZero(a) \/ IsZero(b) THEN IntV(0)
    ELSE IF a.k = "int" /\ b.k = "int" THEN IntV(a.v * b.v)
    ELSE IF IsOne(a) THEN b
    ELSE IF IsOne(b) THEN a
    ELSE Sym("mul", <<a, b>>)

\* IEEE-754 division: x/0 is Inf, 0/0 is NaN, and numpy only warns
FDiv(a, b) ==
    IF IsNaN(a) \/ IsNaN(b) THEN NaN
    ELSE IF IsZero(b) THEN (IF IsZero(a) THEN NaN ELSE Inf)
    ELSE IF IsInf(a) THEN (IF IsInf(b) THEN NaN ELSE Inf)
    ELSE IF IsInf(b) THEN IntV(0)
    ELSE IF IsZero(a) THEN IntV(0)
    ELSE Sym("div", <<a, b>>)

FAdd(a, b) ==
    IF IsNaN(a) \/ IsNaN(b) THEN NaN
    ELSE IF IsInf(a) \/ IsInf(b) THEN Inf
    ELSE IF IsZero(a) THEN b
    ELSE IF IsZero(b) THEN a
    ELSE IF a.k = "int" /\ b.k = "int" THEN IntV(a.v + b.v)
    ELSE Sym("add", <<a, b>>)

FSub(a, b) ==
    IF IsNaN(a) \/ IsNaN(b) THEN NaN
    ELSE IF IsInf(a) /\ IsInf(b) THEN NaN
    ELSE IF IsInf(a) \/ IsInf(b) THEN Inf
    ELSE IF IsZero(b) THEN a
    ELSE IF a.k = "int" /\ b.k = "int" THEN IntV(a.v - b.v)
    ELSE Sym("sub", <<a, b>>)

FNeg(a) ==
    IF a.k = "int" THEN IntV(0 - a.v)
    ELSE IF a.k = "sym" THEN Sym("neg", <<a>>)
    ELSE a

\* exp, sinh, I0, K0 and sqrt at the arguments whose value is exact
FExp(a) ==
    IF IsNaN(a) THEN NaN
    ELSE IF IsZero(a) THEN IntV(1)
    ELSE Sym("exp", <<a>>)

FSinh(a) ==
    IF IsNaN(a) THEN NaN
    ELSE IF IsZero(a) THEN IntV(0)
    ELSE IF IsInf(a) THEN Inf
    ELSE Sym("sinh", <<a>>)

\* scipy.special.k0: K0(0) = inf
FK0(a) ==
    IF IsNaN(a) THEN NaN
    ELSE IF IsZero(a) THEN Inf
    ELSE IF IsInf(a) THEN IntV(0)
    ELSE Sym("k0", <<a>>)

\* scipy.special.i0: I0(0) = 1
FI0(a) ==
    IF IsNaN(a) THEN NaN
    ELSE IF IsZero(a) THEN IntV(1)
    ELSE IF IsInf(a) THEN Inf
    ELSE Sym("i0", <<a>>)

FSqrt(a) ==
    IF IsNaN(a) THEN NaN
    ELSE IF IsZero(a) THEN IntV(0)
    ELSE IF IsInf(a) THEN Inf
    ELSE Sym("sqrt", <<a>>)

\* a Python complex number re + im*1j
Complex(re, im) == Sym("complex", <<re, im>>)
IsComplex(x) == x.k = "sym" /\ x.op = "complex"

\* numpy.real / numpy.imag of a Python scalar
NpReal(x) == IF IsComplex(x) THEN x.args[1] ELSE x
NpImag(x) == IF IsComplex(x) THEN x.args[2] ELSE IntV(0)

\* a + 1j * b on floats: a and b are promoted to a + 0j and b + 0j, and
\* (b + 0j)(0 + 1j) = (b*0 - 0*1) + (b*1 + 0*0)j, so an infinite b makes
\* the real part NaN
AddJ(a, b) ==
    Complex(FAdd(a, FSub(FMul(b, IntV(0)), FMul(IntV(0), IntV(1)))),
            FAdd(IntV(0), FAdd(FMul(b, IntV(1)), FMul(IntV(0), IntV(0)))))

\* ------------------------------------------------------------------ arrays
\* An operand of an elementwise expression: nd = 0 a scalar, nd = 1 a 1-D
\* array, nd = -1 the ValueError "operands could not be broadcast together".
Scalar(x) == [nd |-> 0, e |-> <<x>>]
Arr(s) == [nd |-> 1, e |-> s]
ShapeError == [nd |-> -1, e |-> <<>>]
IsShapeError(a) == a.nd = -1

Size(a) == Len(a.e)

\* numpy broadcasting of two operands of at most one dimension
Broadcastable(a, b) ==
    \/ a.nd = 0 \/ b.nd = 0
    \/ Size(a) = Size(b) \/ Size(a) = 1 \/ Size(b) = 1

BroadcastLen(a, b) ==
    IF a.nd = 0 THEN Size(b)
    ELSE IF b.nd = 0 THEN Size(a)
    ELSE IF Size(a) = 1 THEN Size(b)
    ELSE Size(a)

Elem(a, i) == IF Size(a) = 1 THEN a.e[1] ELSE a.e[i]

\* the scalar operation a ufunc applies to each pair of entries
Apply2(uf, x, y) ==
    CASE uf = "multiply" -> FMul(x, y)
      [] uf = "divide" -> FDiv(x, y)
      [] uf = "add" -> FAdd(x, y)
      [] uf = "subtract" -> FSub(x, y)

BinOp(uf, a, b) ==
    IF IsShapeError(a) \/ IsShapeError(b) THEN ShapeError
    ELSE IF ~Broadcastable(a, b) THEN ShapeError
    ELSE [nd |-> IF a.nd = 0 /\ b.nd = 0 THEN 0 ELSE 1,
          e |-> [i \in 1..BroadcastLen(a, b) |->
                    Apply2(uf, Elem(a, i), Elem(b, i))]]

Apply1(uf, x) ==
    CASE uf = "negative" -> FNeg(x)
      [] uf = "exp" -> FExp(x)
      [] uf = "sinh" -> FSinh(x)
      [] uf = "k0" -> FK0(x)
      [] uf = "i0" -> FI0(x)
      [] uf = "sqrt" -> FSqrt(x)

UnOp(uf, a) ==
    IF IsShapeError(a) THEN ShapeError
    ELSE [nd |-> a.nd, e |-> [i \in 1..Size(a) |-> Apply1(uf, a.e[i])]]

Mul(a, b) == BinOp("multiply", a, b)
Div(a, b) == BinOp("divide", a, b)
Add(a, b) == BinOp("add", a, b)
Sub(a, b) == BinOp("subtract", a, b)
Neg(a) == UnOp("negative", a)
Exp(a) == UnOp("exp", a)
Sinh(a) == UnOp("sinh", a)
K0(a) == UnOp("k0", a)
I0(a) == UnOp("i0", a)
Sqrt(a) == UnOp("sqrt", a)

\* numpy.zeros(n), numpy.ones(n)
Zeros(n) == [i \in 1..n |-> IntV(0)]
Ones(n) == [i \in 1..n |-> IntV(1)]

\* the indices at which a boolean mask is true, in order
RECURSIVE MaskIdx(_, _)
MaskIdx(mask, i) ==
    IF i > Len(mask) THEN <<>>
    ELSE (IF mask[i] THEN <<i>> ELSE <<>>) \o MaskIdx(mask, i + 1)

\* a[mask]: boolean-mask indexing (a and mask have the same length)
MaskGet(s, mask) ==
    LET ix == MaskIdx(mask, 1) IN [j \in 1..Len(ix) |-> s[ix[j]]]

\* a[mask] = val: a scalar or a size-1 value fills, a value with one entry
\* per true mask entry is copied in order, anything else is a ValueError
MaskSetOk(mask, val) ==
    /\ ~IsShapeError(val)
    /\ \/ val.nd = 0
       \/ Size(val) = 1
       \/ Size(val) = Len(MaskIdx(mask, 1))

RECURSIVE Rank(_, _)
\* the number of true entries of mask among the first i
Rank(mask, i) ==
    IF i = 0 THEN 0 ELSE Rank(mask, i - 1) + (IF mask[i] THEN 1 ELSE 0)

MaskSet(s, mask, val) ==
    [i \in 1..Len(s) |->
        IF mask[i] THEN Elem(val, Rank(mask, i)) ELSE s[i]]

NeZero(s) == [i \in 1..Len(s) |-> ~IsZero(s[i])]
EqZero(s) == [i \in 1..Len(s) |-> IsZero(s[i])]
\* (temp > 0).all() on exact values
AllPositive(s) == \A i \in 1..Len(s) : s[i].k = "int" /\ s[i].v > 0

\* ------------------------------------------------------------ call frames
\* A parameter or local that names a float or an array: ref is the heap
\* address of an array (0 for a Python scalar, whose value is val).
PyScalar(x) == [ref |-> 0, val |-> x]
PyArray(r) == [ref |-> r, val |-> IntV(0)]
Unbound == [ref |-> 0, val |-> IntV(0)]

\* numpy.atleast_1d: an array that is already 1-D is returned itself (no
\* copy), a scalar becomes a new array of one entry
AtLeast1dHeap(heap, p) == IF p.ref # 0 THEN heap ELSE Append(heap, <<p.val>>)
AtLeast1dRef(heap, p) == IF p.ref # 0 THEN p.ref ELSE Len(heap) + 1

\* the operand a parameter or local denotes
Operand(heap, p) == IF p.ref # 0 THEN Arr(heap[p.ref]) ELSE Scalar(p.val)

NoFrame ==
    [fn |-> "", pc |-> "idle", heap |-> <<>>, base |-> 0,
     temp |-> Unbound, freq |-> Unbound, delta0 |-> IntV(0),
     delta1 |-> IntV(0), delta2 |-> IntV(0),
     sigma1 |-> Unbound, sigma2 |-> Unbound,
     xi |-> Scalar(IntV(0)), eta |-> Scalar(IntV(0)),
     delta |-> Scalar(IntV(0)), t |-> Scalar(IntV(0)), w |-> Scalar(IntV(0)),
     ii |-> 0, warnings |-> {}, status |-> "", result |-> Unbound]

\* binding of the parameters at the call
Enter(fn, first, heap, a) ==
    [NoFrame EXCEPT !.fn = fn, !.pc = first, !.heap = heap, !.base = Len(heap),
                    !.temp = a.temp, !.freq = a.freq, !.delta0 = a.delta0]

Raise(f, exc) == [f EXCEPT !.pc = "raised", !.status = exc]

\* ------------------------------------------------------------------- limit
\* lines 40-43 with line 43 reading the gap itself: delta2 = imag(delta0)
LimitCoerceImagOfGap(f) ==
    LET h1 == AtLeast1dHeap(f.heap, f.temp)
        rt == AtLeast1dRef(f.heap, f.temp)
        h2 == AtLeast1dHeap(h1, f.freq)
        rf == AtLeast1dRef(h1, f.freq)
    IN [f EXCEPT !.pc = "L45", !.heap = h2,
                 !.temp = PyArray(rt), !.freq = PyArray(rf),
                 !.delta1 = NpReal(f.delta0), !.delta2 = NpImag(f.delta0)]

\* lines 40-43
LimitCoerce(f) ==
    LET h1 == AtLeast1dHeap(f.heap, f.temp)
        rt == AtLeast1dRef(f.heap, f.temp)
        h2 == AtLeast1dHeap(h1, f.freq)
        rf == AtLeast1dRef(h1, f.freq)
        d1 == NpReal(f.delta0)
    IN [f EXCEPT !.pc = "L45", !.heap = h2,
                 !.temp = PyArray(rt), !.freq = PyArray(rf),
                 !.delta1 = d1, !.delta2 = NpImag(d1)]

\* line 45: assert (temp > 0).all()
TempAccepted(s) == AllPositive(s)

LimitAssert(f) ==
    IF TempAccepted(f.heap[f.temp.ref]) THEN [f EXCEPT !.pc = "L46"]
    ELSE Raise(f, "AssertionError")

\* lines 46-51 without the branch that replicates freq
LimitBroadcastTempOnly(f) ==
    LET temp == f.heap[f.temp.ref]
        freq == f.heap[f.freq.ref]
    IN IF Len(temp) = 1 /\ Len(freq) # 1
       THEN [f EXCEPT !.pc = "L53",
                      !.heap = Append(f.heap, Mul(Arr(Ones(Len(freq))), Arr(temp)).e),
                      !.temp = PyArray(Len(f.heap) + 1)]
       ELSE IF Len(freq) # Len(temp)
       THEN Raise(f, "ValueError")
       ELSE [f EXCEPT !.pc = "L53"]

\* lines 46-51
LimitBroadcast(f) ==
    LET temp == f.heap[f.temp.ref]
        freq == f.heap[f.freq.ref]
    IN IF Len(temp) = 1 /\ Len(freq) # 1
       THEN [f EXCEPT !.pc = "L53",
                      !.heap = Append(f.heap, Mul(Arr(Ones(Len(freq))), Arr(temp)).e),
                      !.temp = PyArray(Len(f.heap) + 1)]
       ELSE IF Len(freq) = 1 /\ Len(temp) # 1
       THEN [f EXCEPT !.pc = "L53",
                      !.heap = Append(f.heap, Mul(Arr(Ones(Len(temp))), Arr(freq)).e),
                      !.freq = PyArray(Len(f.heap) + 1)]
       ELSE IF Len(freq) # Len(temp)
       THEN Raise(f, "ValueError")
       ELSE [f EXCEPT !.pc = "L53"]

\* lines 53-54
LimitAlloc(f) ==
    LET n == Len(f.heap[f.freq.ref])
    IN [f EXCEPT !.pc = "L56",
                 !.heap = f.heap \o <<Zeros(n), Zeros(n)>>,
                 !.sigma1 = PyArray(Len(f.heap) + 1),
                 !.sigma2 = PyArray(Len(f.heap) + 2)]

\* lines 56-57
LimitXi(f) ==
    LET temp == f.heap[f.temp.ref]
        freq == f.heap[f.freq.ref]
    IN Div(Mul(Scalar(H), Arr(freq)),
           Mul(Scalar(FMul(IntV(2), KB)), Arr(MaskGet(temp, NeZero(temp)))))

LimitEta(f) ==
    LET temp == f.heap[f.temp.ref]
    IN Div(Scalar(f.delta1),
           Mul(Scalar(KB), Arr(MaskGet(temp, NeZero(temp)))))

\* lines 56-57 with h * freq computed in place (freq *= h)
LimitReducedInPlace(f) ==
    LET g == [f EXCEPT !.heap[f.freq.ref] = Mul(Scalar(H), Arr(@)).e]
    IN IF IsShapeError(LimitXi(f)) \/ IsShapeError(LimitEta(f))
       THEN Raise(g, "ValueError")
       ELSE [g EXCEPT !.pc = "L59", !.xi = LimitXi(f), !.eta = LimitEta(f)]

LimitReduced(f) ==
    IF IsShapeError(LimitXi(f)) \/ IsShapeError(LimitEta(f))
    THEN Raise(f, "ValueError")
    ELSE [f EXCEPT !.pc = "L59", !.xi = LimitXi(f), !.eta = LimitEta(f)]

\* lines 59-60: the zero-temperature entries
ZeroSigma1(f) ==
    LET temp == f.heap[f.temp.ref]
        freq == f.heap[f.freq.ref]
    IN Div(Scalar(FMul(PI, f.delta2)),
           Mul(Scalar(H), Arr(MaskGet(freq, EqZero(temp)))))

ZeroSigma2(f) ==
    LET temp == f.heap[f.temp.ref]
        freq == f.heap[f.freq.ref]
    IN Div(Scalar(FMul(PI, f.delta1)),
           Mul(Scalar(H), Arr(MaskGet(freq, EqZero(temp)))))

LimitZeroT(f) ==
    LET temp == f.heap[f.temp.ref]
        mask == EqZero(temp)
    IN IF ~MaskSetOk(mask, ZeroSigma1(f)) \/ ~MaskSetOk(mask, ZeroSigma2(f))
       THEN Raise(f, "ValueError")
       ELSE [f EXCEPT !.pc = "L61",
               !.heap[f.sigma1.ref] = MaskSet(@, mask, ZeroSigma1(f)),
               !.heap[f.sigma2.ref] = MaskSet(f.heap[f.sigma2.ref], mask, ZeroSigma2(f))]

\* lines 61-63: the finite-temperature entries of sigma1
FiniteSigma1(f) ==
    LET temp == Arr(f.heap[f.temp.ref])
        freq == Arr(f.heap[f.freq.ref])
        hf == Mul(Scalar(H), freq)
        d1 == f.delta1
        d2 == f.delta2
    IN Add(Mul(Mul(Mul(Div(Scalar(FMul(IntV(4), d1)), hf),
                       Exp(Neg(f.eta))),
                   Sinh(f.xi)),
               K0(f.xi)),
           Mul(Div(Scalar(FMul(PI, d2)), hf),
               Add(Scalar(IntV(1)),
                   Mul(Mul(Mul(Div(Scalar(FMul(IntV(2), d1)),
                                   Mul(Scalar(KB), temp)),
                               Exp(Neg(f.eta))),
                           Exp(Neg(f.xi))),
                       I0(f.xi)))))

LimitSigma1(f) ==
    LET mask == NeZero(f.heap[f.temp.ref])
    IN IF ~MaskSetOk(mask, FiniteSigma1(f))
       THEN Raise(f, "ValueError")
       ELSE [f EXCEPT !.pc = "L64",
               !.heap[f.sigma1.ref] = MaskSet(@, mask, FiniteSigma1(f))]

\* lines 64-65: the finite-temperature entries of sigma2
FiniteSigma2(f) ==
    LET freq == Arr(f.heap[f.freq.ref])
        hf == Mul(Scalar(H), freq)
    IN Mul(Div(Scalar(FMul(PI, f.delta1)), hf),
           Sub(Sub(Scalar(IntV(1)),
                   Mul(Sqrt(Div(Scalar(FMul(IntV(2), PI)), f.eta)),
                       Exp(Neg(f.eta)))),
               Mul(Mul(Mul(Scalar(IntV(2)), Exp(Neg(f.eta))),
                       Exp(Neg(f.xi))),
                   I0(f.xi))))

LimitSigma2(f) ==
    LET mask == NeZero(f.heap[f.temp.ref])
    IN IF ~MaskSetOk(mask, FiniteSigma2(f))
       THEN Raise(f, "ValueError")
       ELSE [f EXCEPT !.pc = "L66",
               !.heap[f.sigma2.ref] = MaskSet(@, mask, FiniteSigma2(f))]

\* line 66 and line 109: return sigma1 + 1j * sigma2, a new array
ReturnSigma(f) ==
    LET s1 == f.heap[f.sigma1.ref]
        s2 == f.heap[f.sigma2.ref]
    IN [f EXCEPT !.pc = "done", !.status = "ok",
                 !.heap = Append(f.heap, [i \in 1..Len(s1) |-> AddJ(s1[i], s2[i])]),
                 !.result = PyArray(Len(f.heap) + 1)]

\* ----------------------------------------------------------------- numeric
VARIABLES
    given,  \* the inputs as the caller built them, by value
    args,   \* the caller's temp, freq and delta0 as passed to each call
    fr,     \* the frame of the running call (its locals and the heap)
    out,    \* per function, the outcome of its last completed call
    hard    \* the integrals on which the quadrature does not converge

vars == <<given, args, fr, out, hard>>

\* superconductivity.fermi_functions.fermi, by its contract
Fermi(e, t) == Sym("fermi", <<e, t>>)

\* superconductivity.gap_functions.reduced_delta_bcs, by its contract:
\* elementwise, 1 at zero reduced temperature
FReducedDeltaBcs(x) ==
    IF IsNaN(x) THEN NaN
    ELSE IF IsZero(x) THEN IntV(1)
    ELSE Sym("reduced_delta_bcs", <<x, BCS>>)

ReducedDeltaBcs(a) ==
    IF IsShapeError(a) THEN ShapeError
    ELSE [nd |-> a.nd, e |-> [i \in 1..Size(a) |-> FReducedDeltaBcs(a.e[i])]]

\* the integration variable of a kernel
E == Sym("e", <<>>)
Sq(x) == Sym("pow", <<x, IntV(2)>>)
\* arithmetic on integrands, kept symbolic
TAdd(a, b) == Sym("add", <<a, b>>)
TSub(a, b) == Sym("sub", <<a, b>>)
TMul(a, b) == Sym("mul", <<a, b>>)
TDiv(a, b) == Sym("div", <<a, b>>)
TSqrt(a) == Sym("sqrt", <<a>>)

\* lines 130-132
sigma1_kernel(e, t, w) ==
    TDiv(TMul(TMul(IntV(2), TSub(Fermi(e, t), Fermi(TAdd(e, w), t))),
              TAdd(TAdd(Sq(e), TMul(w, e)), IntV(1))),
         TMul(TMul(w, TSqrt(TSub(Sq(e), IntV(1)))),
              TSqrt(TSub(Sq(TAdd(e, w)), IntV(1)))))

\* lines 155-157
sigma2_kernel(e, t, w) ==
    TDiv(TMul(TSub(IntV(1), TMul(IntV(2), Fermi(TAdd(e, w), t))),
              TAdd(TAdd(Sq(e), TMul(w, e)), IntV(1))),
         TMul(TMul(w, TSqrt(TSub(IntV(1), Sq(e)))),
              TSqrt(TSub(Sq(TAdd(e, w)), IntV(1)))))

\* scipy.integrate.quad(func, a, b, args=(t, w)): the pair (value, ier).
\* With ier # 0 quad issues an IntegrationWarning and still returns its
\* best estimate.
Converges(name, t) == <<name, t>> \notin hard

Quad(name, integrand, a, b, t) ==
    [y |-> Sym(IF Converges(name, t) THEN "integral" ELSE "estimate",
               <<integrand, a, b>>),
     ier |-> IF Converges(name, t) THEN 0 ELSE 1]

\* line 92
NumericCoerce(f) ==
    [f EXCEPT !.pc = "N94",
              !.heap = AtLeast1dHeap(f.heap, f.temp),
              !.temp = PyArray(AtLeast1dRef(f.heap, f.temp))]

\* line 94
NumericDelta(f) ==
    LET temp == Arr(f.heap[f.temp.ref])
        d0 == Scalar(f.delta0)
    IN [f EXCEPT !.pc = "N96",
          !.delta = Mul(d0, ReducedDeltaBcs(
                          Div(Mul(Scalar(FMul(BCS, KB)), temp), d0)))]

\* lines 96-97
NumericT(f) == Div(Mul(Arr(f.heap[f.temp.ref]), Scalar(KB)), f.delta)
NumericW(f) == Div(Mul(Scalar(H), Operand(f.heap, f.freq)), f.delta)

NumericReduced(f) ==
    IF IsShapeError(NumericW(f)) THEN Raise(f, "ValueError")
    ELSE [f EXCEPT !.pc = "N101", !.t = NumericT(f), !.w = NumericW(f)]

\* lines 99-102
NumericAlloc(f) ==
    LET n == Len(f.heap[f.temp.ref])
    IN [f EXCEPT !.pc = "N104", !.ii = 0,
                 !.heap = f.heap \o <<Zeros(n), Zeros(n)>>,
                 !.sigma1 = PyArray(Len(f.heap) + 1),
                 !.sigma2 = PyArray(Len(f.heap) + 2)]

\* line 105 hoisted out of the loop: a2 = 1 - w[0]
LowerBoundFirst(f, i) == FSub(IntV(1), f.w.e[1])

\* line 105
LowerBound(f, i) == FSub(IntV(1), f.w.e[i])

\* lines 106-107: the two integrals of entry i
Integral1(f, i) ==
    Quad("sigma1_kernel", sigma1_kernel(E, f.t.e[i], f.w.e[i]),
         IntV(1), Inf, f.t.e[i])

Integral2(f, i) ==
    Quad("sigma2_kernel", sigma2_kernel(E, f.t.e[i], f.w.e[i]),
         LowerBound(f, i), IntV(1), f.t.e[i])

\* element [1] of quad's result, the error estimate
StoredError(q) == Sym("abserr", <<q.y>>)

\* what lines 106-107 store: element [0] of quad's result
Stored(q) == q.y

\* quad's warnings.warn(IntegrationWarning) when ier # 0
Warned(name, i, q) == IF q.ier # 0 THEN {<<name, i>>} ELSE {}

\* lines 104-107: one pass of the loop (f.ii counts the passes made)
NumericLoop(f) ==
    LET i == f.ii + 1
    IN IF f.ii >= Len(f.heap[f.temp.ref]) THEN [f EXCEPT !.pc = "N109"]
       ELSE IF i > Size(f.w) THEN Raise(f, "IndexError")
       ELSE [f EXCEPT !.ii = i,
               !.heap[f.sigma1.ref][i] = Stored(Integral1(f, i)),
               !.heap[f.sigma2.ref][i] = Stored(Integral2(f, i)),
               !.warnings = @ \cup Warned("sigma1_kernel", i, Integral1(f, i))
                              \cup Warned("sigma2_kernel", i, Integral2(f, i))]

\* ------------------------------------------------------------ whole calls
Step(f) ==
    CASE f.pc = "L40" -> LimitCoerce(f)
      [] f.pc = "L45" -> LimitAssert(f)
      [] f.pc = "L46" -> LimitBroadcast(f)
      [] f.pc = "L53" -> LimitAlloc(f)
      [] f.pc = "L56" -> LimitReduced(f)
      [] f.pc = "L59" -> LimitZeroT(f)
      [] f.pc = "L61" -> LimitSigma1(f)
      [] f.pc = "L64" -> LimitSigma2(f)
      [] f.pc = "L66" -> ReturnSigma(f)
      [] f.pc = "N92" -> NumericCoerce(f)
      [] f.pc = "N94" -> NumericDelta(f)
      [] f.pc = "N96" -> NumericReduced(f)
      [] f.pc = "N101" -> NumericAlloc(f)
      [] f.pc = "N104" -> NumericLoop(f)
      [] f.pc = "N109" -> ReturnSigma(f)

Finished(f) == f.pc \in {"done", "raised"}

RECURSIVE Run(_)
Run(f) == IF Finished(f) THEN f ELSE Run(Step(f))

\* what the caller gets: the exception, or the returned array and the
\* warnings issued on the way
Outcome(f) ==
    [status |-> f.status,
     value |-> IF f.status = "ok" THEN f.heap[f.result.ref] ELSE <<>>,
     warnings |-> f.warnings]

NoOutcome == [status |-> "none", value |-> <<>>, warnings |-> {}]

\* A caller-side input: a Python scalar (arr FALSE, one entry) or a 1-D
\* numpy array.  The arrays are put on the heap, temp first.
CallerHeap(tv, fv) ==
    (IF tv.arr THEN <<tv.e>> ELSE <<>>) \o (IF fv.arr THEN <<fv.e>> ELSE <<>>)

CallerArgs(tv, fv, d0) ==
    [temp |-> IF tv.arr THEN PyArray(1) ELSE PyScalar(tv.e[1]),
     freq |-> IF fv.arr THEN PyArray(IF tv.arr THEN 2 ELSE 1)
              ELSE PyScalar(fv.e[1]),
     delta0 |-> d0]

limit(tv, fv, d0) ==
    Outcome(Run(Enter("limit", "L40", CallerHeap(tv, fv), CallerArgs(tv, fv, d0))))

numeric(tv, fv, d0) ==
    Outcome(Run(Enter("numeric", "N92", CallerHeap(tv, fv), CallerArgs(tv, fv, d0))))

\* ------------------------------------------------------------- the inputs
TempVals == {-1, 0, 1, 2}
FreqVals == {0, 1}
\* gap energies: real, and complex with a loss part
DeltaVals == {IntV(1), Complex(IntV(2), IntV(1))}
\* temperatures at which the quadrature may fail to converge
HardTemps == {2}

SeqsUpTo(S, n) == UNION {[1..m -> S] : m \in 0..n}
PyFloat(x) == [arr |-> FALSE, e |-> <<IntV(x)>>]
NdArray(s) == [arr |-> TRUE, e |-> [i \in DOMAIN s |-> IntV(s[i])]]
Inputs(S, n) ==
    {PyFloat(x) : x \in S} \cup {NdArray(s) : s \in SeqsUpTo(S, n)}

\* lines 94 and 96-97 for one entry
GapOf(T, d0) ==
    FMul(d0, FReducedDeltaBcs(FDiv(FMul(FMul(BCS, KB), T), d0)))
ReducedT(T, d0) == FDiv(FMul(T, KB), GapOf(T, d0))
ReducedW(T, F, d0) == FDiv(FMul(H, F), GapOf(T, d0))

HardIntegrals(d0) ==
    {"sigma1_kernel", "sigma2_kernel"} \X
        {ReducedT(IntV(T), d0) : T \in HardTemps}

InitWith(tv, fv, d0, hd) ==
    /\ given = [temp |-> tv, freq |-> fv, delta0 |-> d0]
    /\ args = CallerArgs(tv, fv, d0)
    /\ fr = [NoFrame EXCEPT !.heap = CallerHeap(tv, fv)]
    /\ out = [fn \in {"limit", "numeric"} |-> NoOutcome]
    /\ hard = hd

\* every shape of temp and freq, every gap, a quadrature that converges
InitShapes ==
    \E tv \in Inputs(TempVals, MaxTempLen), fv \in Inputs(FreqVals, MaxFreqLen),
       d0 \in DeltaVals :
        InitWith(tv, fv, d0, {})

\* a scalar frequency and a real gap, as numeric documents them, and a
\* quadrature that fails on some integrals
InitHard ==
    \E tv \in Inputs(TempVals, MaxTempLen), x \in FreqVals,
       hd \in SUBSET HardIntegrals(IntV(1)) \ {{}} :
        InitWith(tv, PyFloat(x), IntV(1), hd)

Init == InitShapes \/ InitHard

\* ------------------------------------------------------------ the actions
CallLimit ==
    /\ fr.pc = "idle"
    /\ fr' = Enter("limit", "L40", fr.heap, args)
    /\ UNCHANGED <<given, args, out, hard>>

CallNumeric ==
    /\ fr.pc = "idle"
    /\ fr' = Enter("numeric", "N92", fr.heap, args)
    /\ UNCHANGED <<given, args, out, hard>>

At(pc) == fr.pc = pc /\ UNCHANGED <<given, args, out, hard>>

DoLimitCoerce == At("L40") /\ fr' = LimitCoerce(fr)
DoLimitAssert == At("L45") /\ fr' = LimitAssert(fr)
DoLimitBroadcast == At("L46") /\ fr' = LimitBroadcast(fr)
DoLimitAlloc == At("L53") /\ fr' = LimitAlloc(fr)
DoLimitReduced == At("L56") /\ fr' = LimitReduced(fr)
DoLimitZeroT == At("L59") /\ fr' = LimitZeroT(fr)
DoLimitSigma1 == At("L61") /\ fr' = LimitSigma1(fr)
DoLimitSigma2 == At("L64") /\ fr' = LimitSigma2(fr)
DoLimitReturn == At("L66") /\ fr' = ReturnSigma(fr)
DoNumericCoerce == At("N92") /\ fr' = NumericCoerce(fr)
DoNumericDelta == At("N94") /\ fr' = NumericDelta(fr)
DoNumericReduced == At("N96") /\ fr' = NumericReduced(fr)
DoNumericAlloc == At("N101") /\ fr' = NumericAlloc(fr)
DoNumericLoop == At("N104") /\ fr' = NumericLoop(fr)
DoNumericReturn == At("N109") /\ fr' = ReturnSigma(fr)

\* the call is over: the caller keeps the outcome, the locals are dropped
Return ==
    /\ Finished(fr)
    /\ out' = [out EXCEPT ![fr.fn] = Outcome(fr)]
    /\ fr' = [NoFrame EXCEPT !.heap = SubSeq(fr.heap, 1, fr.base)]
    /\ UNCHANGED <<given, args, hard>>

Next ==
    \/ CallLimit \/ CallNumeric
    \/ DoLimitCoerce \/ DoLimitAssert \/ DoLimitBroadcast \/ DoLimitAlloc
    \/ DoLimitReduced \/ DoLimitZeroT \/ DoLimitSigma1 \/ DoLimitSigma2
    \/ DoLimitReturn
    \/ DoNumericCoerce \/ DoNumericDelta \/ DoNumericReduced \/ DoNumericAlloc
    \/ DoNumericLoop \/ DoNumericReturn
    \/ Return

Spec == Init /\ [][Next]_vars

\* ------------------------------------------------- one entry, in closed form
\* lines 56-57 for one (T, F) pair
XiOf(T, F) == FDiv(FMul(H, F), FMul(FMul(IntV(2), KB), T))
EtaOf(T, d1) == FDiv(d1, FMul(KB, T))

\* lines 59-60 for one entry
ZeroTempEntry(F, d1, d2) ==
    AddJ(FDiv(FMul(PI, d2), FMul(H, F)), FDiv(FMul(PI, d1), FMul(H, F)))

\* the first summand of lines 61-63 for one entry
LosslessSigma1(T, F, d1) ==
    FMul(FMul(FMul(FDiv(FMul(IntV(4), d1), FMul(H, F)),
                   FExp(FNeg(EtaOf(T, d1)))),
              FSinh(XiOf(T, F))),
         FK0(XiOf(T, F)))

\* lines 61-63 for one entry
EntrySigma1(T, F, d1, d2) ==
    FAdd(LosslessSigma1(T, F, d1),
         FMul(FDiv(FMul(PI, d2), FMul(H, F)),
              FAdd(IntV(1),
                   FMul(FMul(FMul(FDiv(FMul(IntV(2), d1), FMul(KB, T)),
                                  FExp(FNeg(EtaOf(T, d1)))),
                             FExp(FNeg(XiOf(T, F)))),
                        FI0(XiOf(T, F))))))

\* lines 64-65 for one entry
EntrySigma2(T, F, d1) ==
    FMul(FDiv(FMul(PI, d1), FMul(H, F)),
         FSub(FSub(IntV(1),
                   FMul(FSqrt(FDiv(FMul(IntV(2), PI), EtaOf(T, d1))),
                        FExp(FNeg(EtaOf(T, d1))))),
              FMul(FMul(FMul(IntV(2), FExp(FNeg(EtaOf(T, d1)))),
                        FExp(FNeg(XiOf(T, F)))),
                   FI0(XiOf(T, F)))))

FiniteTempEntry(T, F, d1, d2) ==
    AddJ(EntrySigma1(T, F, d1, d2), EntrySigma2(T, F, d1))

\* ------------------------------------------------------------- the claims
TV == given.temp.e
FV == given.freq.e
\* entry i of an input after broadcasting
At1(s, i) == IF Len(s) = 1 THEN s[1] ELSE s[i]
BroadcastSize == IF Len(TV) = 1 THEN Len(FV) ELSE Len(TV)
Compatible == Len(TV) = Len(FV) \/ Len(TV) = 1 \/ Len(FV) = 1
NonEmpty == Len(TV) >= 1 /\ Len(FV) >= 1
ValidTemps == \A i \in 1..Len(TV) : TV[i].v >= 0
PositiveFreqs == \A j \in 1..Len(FV) : FV[j].v > 0

LimitOver == fr.fn = "limit" /\ Finished(fr)
NumericOver == fr.fn = "numeric" /\ Finished(fr)
Value == Outcome(fr).value

\* C1: a call of limit whose temperatures are all 0 and whose frequencies
\* are positive returns, and every entry is the zero-temperature value
\* sigma1 = pi*delta2/(h*f), sigma2 = pi*Re(delta0)/(h*f).
C1_ZeroTemperatureEvaluated ==
    (/\ LimitOver /\ NonEmpty /\ Compatible /\ PositiveFreqs
     /\ \A i \in 1..Len(TV) : IsZero(TV[i]))
    => /\ fr.status = "ok"
       /\ Len(Value) = BroadcastSize
       /\ \A i \in 1..BroadcastSize :
            Value[i] = ZeroTempEntry(At1(FV, i), NpReal(given.delta0),
                                     NpImag(NpReal(given.delta0)))

\* C2: limit fails the temperature check exactly when some temperature is
\* negative, and it fails before anything is replicated or allocated.
C2_RejectsExactlyNegative ==
    (fr.fn = "limit" /\ fr.pc \notin {"L40", "L45"})
    => /\ (fr.status = "AssertionError") <=> (\E i \in 1..Len(TV) : TV[i].v < 0)
       /\ fr.status = "AssertionError" =>
            /\ fr.sigma1 = Unbound /\ fr.sigma2 = Unbound /\ fr.result = Unbound
            /\ fr.heap[fr.temp.ref] = TV /\ fr.heap[fr.freq.ref] = FV

\* the input with every entry of a size-1 input repeated n times
Replicated(x, n) == [arr |-> TRUE, e |-> [i \in 1..n |-> x.e[1]]]
OneBroadcast ==
    \/ Len(TV) = 1 /\ Len(FV) > 1
    \/ Len(FV) = 1 /\ Len(TV) > 1

\* C3: when one of temp/freq has size 1 and the other size N > 1, the
\* outcome of limit is the outcome of the call with the size-1 argument
\* written out N times, and a returned array has N entries; when both have
\* size 1 a returned array has one entry.
C3_BroadcastIsReplication ==
    /\ (LimitOver /\ OneBroadcast) =>
          /\ Outcome(fr) =
               limit(IF Len(TV) = 1 THEN Replicated(given.temp, Len(FV))
                     ELSE given.temp,
                     IF Len(FV) = 1 THEN Replicated(given.freq, Len(TV))
                     ELSE given.freq,
                     given.delta0)
          /\ fr.status = "ok" => Len(Value) = BroadcastSize
          /\ fr.status # "ValueError"
    /\ (LimitOver /\ Len(TV) = 1 /\ Len(FV) = 1 /\ fr.status = "ok")
          => Len(Value) = 1

\* C3 witnessed: a scalar frequency spread over two different temperatures
C3_Witness ==
    /\ LimitOver /\ fr.status = "ok"
    /\ Len(FV) = 1 /\ Len(TV) = 2 /\ TV[1] # TV[2]
    /\ Value[1] # Value[2]

\* C4: with valid temperatures, limit raises the shape error exactly when
\* temp and freq both have more than one entry and differ in size.
C4_ShapeErrorExactlyOnMismatch ==
    (LimitOver /\ NonEmpty /\ ValidTemps)
    => ((fr.status = "ValueError")
        <=> (Len(TV) > 1 /\ Len(FV) > 1 /\ Len(TV) # Len(FV)))

\* the permutations of 1..n
Perms(n) == {p \in [1..n -> 1..n] : \A i, j \in 1..n : p[i] = p[j] => i = j}
Permuted(x, p) == [arr |-> x.arr, e |-> [i \in 1..Len(x.e) |-> x.e[p[i]]]]

\* what quad stores for entry i of temp, computed from temp[i] alone
EntryIntegral1(T, F, d0) ==
    Quad("sigma1_kernel",
         sigma1_kernel(E, ReducedT(T, d0), ReducedW(T, F, d0)),
         IntV(1), Inf, ReducedT(T, d0))
EntryIntegral2(T, F, d0) ==
    Quad("sigma2_kernel",
         sigma2_kernel(E, ReducedT(T, d0), ReducedW(T, F, d0)),
         FSub(IntV(1), ReducedW(T, F, d0)), IntV(1), ReducedT(T, d0))

\* C5: numeric with a scalar frequency returns one entry per temperature;
\* entry i is quad's value for sigma1_kernel over [1, inf) plus 1j times
\* quad's value for sigma2_kernel over [1 - w[i], 1], with t[i] and w[i]
\* computed from temp[i] alone; permuting temp permutes the result.
C5_PerEntryIntegrals ==
    (NumericOver /\ ~given.freq.arr)
    => /\ fr.status = "ok"
       /\ Len(Value) = Len(TV)
       /\ \A i \in 1..Len(TV) :
            Value[i] = AddJ(EntryIntegral1(TV[i], FV[1], given.delta0).y,
                            EntryIntegral2(TV[i], FV[1], given.delta0).y)
       /\ \A p \in Perms(Len(TV)) :
            numeric(Permuted(given.temp, p), given.freq, given.delta0).value
                = [i \in 1..Len(TV) |-> Value[p[i]]]

\* C5 witnessed: two different temperatures, two different results, and a
\* lower bound of the second integral that differs between the entries
C5_Witness ==
    /\ NumericOver /\ ~given.freq.arr /\ fr.status = "ok"
    /\ Len(TV) = 2 /\ TV[1] # TV[2] /\ Value[1] # Value[2]
    /\ LowerBound(fr, 1) # LowerBound(fr, 2)

\* the integrals of this call on which the quadrature does not converge
NonConverged ==
    {<<name, i>> \in {"sigma1_kernel", "sigma2_kernel"} \X (1..Len(TV)) :
        ~Converges(name, ReducedT(TV[i], given.delta0))}

\* C6 as stated: a quadrature that does not converge makes numeric fail
\* with IntegrationFailure instead of returning the estimate.
C6_IntegrationFailureRaised ==
    (NumericOver /\ ~given.freq.arr /\ NonConverged # {})
    => fr.status = "IntegrationFailure"

\* the part of a result entry an integral fills
PartOf(z, name) == IF name = "sigma1_kernel" THEN z.args[1] ELSE z.args[2]

\* C6 amended: when the quadrature of an entry does not converge, quad
\* warns and numeric stores quad's estimate in the output entry and returns
\* normally; no error is raised.
C6_EstimateStoredWithWarning ==
    (NumericOver /\ ~given.freq.arr)
    => /\ fr.status = "ok"
       /\ fr.warnings = NonConverged
       /\ \A nc \in NonConverged :
            PartOf(Value[nc[2]], nc[1]).op = "estimate"

\* C6 witnessed: a returned array that holds an estimate, with its warning
C6_Witness ==
    /\ NumericOver /\ fr.status = "ok" /\ Len(TV) = 2
    /\ NonConverged # {} /\ fr.warnings # {}

\* C7: with temperatures that mix zero and nonzero entries, limit returns
\* one array in input order, the zero-temperature value at the zero entries
\* and the finite-temperature value at the others.
C7_MixedTemperatures ==
    (/\ LimitOver /\ ValidTemps /\ PositiveFreqs
     /\ Len(FV) = Len(TV) \/ Len(FV) = 1
     /\ \E i \in 1..Len(TV) : IsZero(TV[i])
     /\ \E i \in 1..Len(TV) : ~IsZero(TV[i]))
    => /\ fr.status = "ok"
       /\ Len(Value) = Len(TV)
       /\ \A i \in 1..Len(TV) :
            Value[i] =
              IF IsZero(TV[i])
              THEN ZeroTempEntry(At1(FV, i), NpReal(given.delta0),
                                 NpImag(NpReal(given.delta0)))
              ELSE FiniteTempEntry(TV[i], At1(FV, i), NpReal(given.delta0),
                                   NpImag(NpReal(given.delta0)))

\* gap values to compare a call with
GapAlternatives ==
    {IntV(1), IntV(2)} \cup
    {Complex(IntV(re), IntV(im)) : re \in {1, 2}, im \in {0, 1, 2}}

C9_NoMutationNoState ==
    /\ given.temp.arr => fr.heap[args.temp.ref] = given.temp.e
    /\ given.freq.arr => fr.heap[args.freq.ref] = given.freq.e
    /\ fr.status = "ok" =>
         /\ fr.result.ref > fr.base
         /\ fr.result.ref \notin
              {fr.temp.ref, fr.freq.ref, fr.sigma1.ref, fr.sigma2.ref}
    /\ (Finished(fr) /\ out[fr.fn] # NoOutcome) => Outcome(fr) = out[fr.fn]

\* C9 witnessed: a second call of limit on arrays the coercion aliases,
\* after a call of numeric, returns
C9_Witness ==
    /\ LimitOver /\ fr.status = "ok"
    /\ out["limit"].status = "ok" /\ out["numeric"].status = "ok"
    /\ given.temp.arr /\ given.freq.arr
    /\ fr.temp.ref = args.temp.ref /\ fr.freq.ref = args.freq.ref
    /\ Len(TV) = 2

\* C10: a zero frequency is not rejected: with valid temperatures and
\* compatible sizes limit returns, and the entries whose frequency is 0 are
\* Inf or NaN.
C10_ZeroFrequencyPropagates ==
    (/\ LimitOver /\ NonEmpty /\ Compatible /\ ValidTemps
     /\ \E j \in 1..Len(FV) : IsZero(FV[j]))
    => /\ fr.status = "ok"
       /\ Len(Value) = BroadcastSize
       /\ \A i \in 1..BroadcastSize :
            IsZero(At1(FV, i)) =>
               ~IsFinite(Value[i].args[1]) \/ ~IsFinite(Value[i].args[2])

====
